---- MODULE Spec2Model ----
(***************************************************************************)
(* Model of the queue-based link processor of src/main.py (LinkProcessor): *)
(* a pool of asyncio worker tasks consuming one asyncio.Queue, an ffmpeg   *)
(* semaphore, a throttled status message and upload/cleanup of artifacts.  *)
(* One action is the code a task runs between two suspension points        *)
(* (awaits that really suspend) of the single-threaded event loop.         *)
(* A second part models download_file_with_progress of                     *)
(* src/deepseek_python_20251028_59d3bb.py (AdvancedRASDownloader), which   *)
(* batch_download runs in pool threads: one action is one access of the    *)
(* state the threads share (the link dicts, the download directory).       *)
(***************************************************************************)
EXTENDS Integers, Sequences, FiniteSets

\* ---------------------------------------------------------------- constants
MAX_WORKERS == 2              \* the configuration modelled (env MAX_WORKERS)
MAX_CONCURRENT_FFMPEG == 1    \* the configuration modelled (env MAX_CONCURRENT_FFMPEG)
BATCH_MESSAGE_INTERVAL == 10
\* the bytes of stderr convert_m3u8_async puts in its error: stderr[:400]
ErrPrefix == 400
\* the size of the pipe of the OS, and the limit of an asyncio StreamReader
PipeBuf == 65536
\* the unread bytes the stderr pipe takes before a write of ffmpeg blocks: the
\* pipe of the OS and the buffer of the StreamReader, which stops reading the
\* pipe above twice its limit
PipeCapacity == 3 * PipeBuf
\* the timeout process_single passes to convert_m3u8_async: none, so the
\* parameter's default
ConvertTimeout == 0

\* ------------------------------------------------------------------- bounds
MaxBatches == 2      \* calls of enqueue_links
MaxLinks == 2        \* links of one batch
MaxJobs == 2         \* links enqueued in all
MaxStops == 2        \* calls of stop_workers
MaxDlLinks == 2      \* link dicts given to the downloader
MaxCalls == 2        \* calls of download_file_with_progress

Workers == 1..MAX_WORKERS
None == 0            \* the stop sentinel put on the queue
Chats == {101, 102}
Urls == {[base |-> "v", ext |-> "m3u8"], [base |-> "d", ext |-> "pdf"]}
\* loop time that may pass between two readings of the loop clock: none (a
\* burst) or more than the throttle interval
Elapsed == {0, BATCH_MESSAGE_INTERVAL + 1}
Batches == UNION {[1..n -> Urls] : n \in 1..MaxLinks}

VARIABLES
  started,      \* start_workers has run
  nworkers,     \* len(self.workers)
  queue,        \* self.queue: job ids and None sentinels, head first
  unfinished,   \* the queue's count of items put and not yet task_done
  jobs,         \* every item ever enqueued, by job id: url, chat_id, index, total
  pc,           \* where each worker task is suspended
  cur,          \* the item a worker is processing (None when it has none)
  now,          \* process_single's local `now` while its status message is being sent
  sem,          \* value of self.ffmpeg_sem
  procs,        \* workers whose ffmpeg process is spawned and has not exited
  lastStatus,   \* self._last_status_time
  clock,        \* the event loop's time() when it was last read
  files,        \* paths existing in DOWNLOADS_DIR
  clientClosed, \* self.http_client is closed
  stopPc,       \* where stop_workers is
  stopCalls,    \* calls of stop_workers so far
  batches,      \* calls of enqueue_links so far
  \* observations of the run, per job id
  status,       \* "Queued", "InProgress", "Done", "Failed"
  dequeues,     \* times the job was returned by queue.get()
  cleanups,     \* calls of safe_remove for the job
  rmFailed,     \* jobs whose os.remove raised
  delivered,    \* send_document calls that succeeded for the job
  errCalls,     \* error notifications issued for the job
  errSent,      \* error notifications that were sent
  errHandled,   \* workers whose except clause has handled an exception of a job
  progressLog,  \* the progress messages sent: the job and the loop time of each
  preStop,      \* jobs enqueued before the first call of stop_workers
  \* AdvancedRASDownloader
  linkStatus,   \* link['status'] of each link dict
  disk,         \* what is at os.path.join(download_dir, link['filename'])
  dpc,          \* where each call of download_file_with_progress is
  dlink,        \* the link of each call
  dcb,          \* the progress_callback of each call
  dresult,      \* how each call ended
  gets,         \* calls of requests.get made for each link
  \* the configuration read from the environment when main.py is loaded
  maxWorkers,   \* MAX_WORKERS
  maxFfmpeg,    \* MAX_CONCURRENT_FFMPEG
  \* one call of convert_m3u8_async, with its ffmpeg process
  cvPc,         \* where the call is
  cvTimeout,    \* its timeout argument
  cvRc,         \* the code the ffmpeg process exits with when it gets to exit
  cvToWrite,    \* bytes the process has still to write to stderr before it exits
  cvPipe,       \* bytes written to the stderr pipe and not read
  cvResult,     \* how the call ended
  cvErrLen      \* bytes of stderr carried by the RuntimeError of a failed conversion

vars == <<started, nworkers, queue, unfinished, jobs, pc, cur, now, sem, procs,
          lastStatus, clock, files, clientClosed, stopPc, stopCalls,
          batches, status, dequeues, cleanups, rmFailed, delivered,
          errCalls, errSent, errHandled, progressLog, preStop>>

dlvars == <<linkStatus, disk, dpc, dlink, dcb, dresult, gets>>
cfgvars == <<maxWorkers, maxFfmpeg>>
convars == <<cvPc, cvTimeout, cvRc, cvToWrite, cvPipe, cvResult, cvErrLen>>
allvars == <<vars, dlvars, cfgvars, convars>>

\* the configurations a deployment may set: any integers; the model takes those
\* up to the configuration of Spec, and one negative value of each
Configs == [workers : (0 - 1)..MAX_WORKERS, ffmpeg : (0 - 1)..MAX_CONCURRENT_FFMPEG]

DlLinks == 1..MaxDlLinks
Calls == 1..MaxCalls
\* the progress_callback given to a call: none, one that returns, one that raises
\* (start_batch_download's callback calls asyncio.create_task in a pool thread,
\* where no event loop is running: it raises RuntimeError)
Callbacks == {"none", "returns", "raises"}

JobIds == 1..Len(jobs)

\* chat ids are opaque: the chats are named in the order they first send a batch
ChatsSeen == {jobs[j].chat_id : j \in JobIds}
NextChats == {c \in Chats : \A d \in Chats \ ChatsSeen : c <= d}

\* ------------------------------------------------------------------ helpers
IsStream(url) == url.ext = "m3u8"

OutPath(j) ==
  [index |-> jobs[j].index, base |-> jobs[j].url.base,
   ext |-> IF IsStream(jobs[j].url) THEN "mp4" ELSE jobs[j].url.ext]

ShouldReport(t, last) == t - last > BATCH_MESSAGE_INTERVAL

\* the semaphore: acquire() returns at once while the value is positive and
\* waits otherwise; release() adds one.  (SemNeverLocked and SemReleaseLost are
\* faulty variants: an acquire that never waits, a release that is lost;
\* SemAcquireFree is another: an acquire that takes no slot.)
SemNeverLocked(s) == FALSE
SemLocked(s) == s = 0
SemAcquireFree(s) == s
SemAcquire(s) == s - 1
SemReleaseLost(s) == s
SemRelease(s) == s + 1

\* the queue: put() appends, get() removes the head it returns.  (QueuePeek is
\* a faulty variant: a get that leaves the item on the queue; QueuePutFront is
\* another: a put at the head, which makes the queue a stack.)
QueuePutFront(q, item) == <<item>> \o q
QueuePut(q, item) == Append(q, item)
QueuePeek(q) == q
QueueRest(q) == Tail(q)

\* Queue.task_done: one item less is unfinished.  (TaskDoneSkipped is a faulty
\* variant: a path of worker_loop without the call.)
TaskDoneSkipped(n) == n
TaskDone(n) == n - 1

\* the item on which a worker leaves its loop: the None sentinel.  (StopsOnAny
\* is a faulty variant: the worker leaves on whatever it dequeues.)
StopsOnAny(item) == TRUE
StopsOn(item) == item = None

\* the sentinels stop_workers puts: one per worker task.  (SentinelsOneShort
\* is a faulty variant: one sentinel too few.)
RECURSIVE SentinelsOneShort(_)
SentinelsOneShort(n) ==
  IF n <= 1 THEN <<>> ELSE <<None>> \o SentinelsOneShort(n - 1)

RECURSIVE Sentinels(_)
Sentinels(n) == IF n = 0 THEN <<>> ELSE <<None>> \o Sentinels(n - 1)

\* download_file_async opens the output file once the response has come and
\* raise_for_status has passed.  (OpensFileEarly is a faulty variant: the file
\* is opened before the status is looked at.)
OpensFileEarly(r) == r \in {"ok", "status"}
OpensFile(r) == r = "ok"

\* len(range(n)): the tasks `for _ in range(MAX_WORKERS)` creates
RangeLen(n) == IF n > 0 THEN n ELSE 0

\* convert_m3u8_async bounds its wait for ffmpeg only `if timeout and timeout > 0`
HasDeadline(timeout) == timeout > 0
\* the return code of an ffmpeg process that was killed
Killed == 0 - 9

\* a worker is inside the `async with self.ffmpeg_sem` block while it awaits
\* the spawn of ffmpeg, its exit, or the read of its stderr
HoldsSlot(w) == pc[w] \in {"spawn", "wait", "readerr"}
\* slots of ffmpeg_sem currently held
Held == maxFfmpeg - sem

\* ------------------------------------------------------------ initial state
LinkProcessorInit ==
  /\ started = FALSE
  /\ nworkers = 0
  /\ queue = <<>>
  /\ unfinished = 0
  /\ jobs = <<>>
  /\ pc = [w \in Workers |-> "unborn"]
  /\ cur = [w \in Workers |-> None]
  /\ now = [w \in Workers |-> 0]
  /\ sem = maxFfmpeg
  /\ procs = {}
  /\ lastStatus = 0
  /\ clock = 0
  /\ files = {}
  /\ clientClosed = FALSE
  /\ stopPc = "idle"
  /\ stopCalls = 0
  /\ batches = 0
  /\ status = <<>>
  /\ dequeues = <<>>
  /\ cleanups = <<>>
  /\ rmFailed = {}
  /\ delivered = <<>>
  /\ errCalls = <<>>
  /\ errSent = <<>>
  /\ errHandled = {}
  /\ progressLog = {}
  /\ preStop = {}

\* no call of convert_m3u8_async on its own is under way
ConvertIdle ==
  /\ cvPc = "idle"
  /\ cvTimeout = ConvertTimeout
  /\ cvRc = 0
  /\ cvToWrite = 0
  /\ cvPipe = 0
  /\ cvResult = "none"
  /\ cvErrLen = 0

\* no call of download_file_with_progress has been made; the links are as
\* extract_links_from_text builds them
DownloaderInit ==
  /\ linkStatus = [l \in DlLinks |-> "pending"]
  /\ dpc = [c \in Calls |-> "idle"]
  /\ dlink = [c \in Calls |-> 1]
  /\ dcb = [c \in Calls |-> "none"]
  /\ dresult = [c \in Calls |-> "none"]
  /\ gets = [l \in DlLinks |-> 0]

Init ==
  /\ maxWorkers = MAX_WORKERS
  /\ maxFfmpeg = MAX_CONCURRENT_FFMPEG
  /\ LinkProcessorInit
  /\ DownloaderInit
  /\ ConvertIdle
  /\ disk = [l \in DlLinks |-> "none"]

\* ------------------------------------------------- steps shared by actions
RECURSIVE PutAll(_, _)
PutAll(q, items) ==
  IF items = <<>> THEN q ELSE PutAll(QueuePut(q, Head(items)), Tail(items))

\* the jobs that process_single runs inside `async with self.ffmpeg_sem`: the
\* streams.  (NeedsSlotAlways is a faulty variant: every job is.)
NeedsSlotAlways(url) == TRUE
NeedsSlot(url) == IsStream(url)

\* process_single from the throttle check on, up to its first suspension
Dispatch(w, j) ==
  IF NeedsSlot(jobs[j].url)
  THEN IF SemLocked(sem)
       THEN pc' = [pc EXCEPT ![w] = "acquire"] /\ sem' = sem
       ELSE pc' = [pc EXCEPT ![w] = "spawn"] /\ sem' = SemAcquire(sem)
  ELSE pc' = [pc EXCEPT ![w] = "fetch"] /\ sem' = sem

\* where a worker goes once the exception of a job has been handled: back to
\* queue.get().  (AfterErrorCrash is a faulty variant: the loop is left.)
AfterErrorCrash == "exited"
AfterError == "get"

\* an exception of process_single reaches worker_loop's except clause, which
\* logs it and starts sending the error message
Raise(w) ==
  /\ pc' = [pc EXCEPT ![w] = "notify"]
  /\ status' = [status EXCEPT ![cur[w]] = "Failed"]
  /\ errCalls' = [errCalls EXCEPT ![cur[w]] = @ + 1]
  /\ errHandled' = errHandled \cup {w}

\* the outcome of a job whose upload_file has returned: safe_remove logs the
\* exception of os.remove and returns, process_single returns, the job is done.
\* (AfterRemoveRaises is a faulty variant: the exception of os.remove leaves
\* safe_remove.)
AfterRemoveRaises(removed) == IF removed THEN "Done" ELSE "Failed"
AfterRemove(removed) == "Done"

\* (a faulty variant of Complete: process_single returns without safe_remove)
CompleteNoRemove(w, rmOk) ==
  /\ UNCHANGED <<cleanups, files, rmFailed>>
  /\ status' = [status EXCEPT ![cur[w]] = "Done"]
  /\ unfinished' = TaskDone(unfinished)
  /\ cur' = [cur EXCEPT ![w] = None]
  /\ pc' = [pc EXCEPT ![w] = "get"]

\* upload_file has returned: safe_remove, return of process_single, task_done
Complete(w, rmOk) ==
  LET j == cur[w]
      removed == OutPath(j) \in files /\ rmOk
  IN /\ cleanups' = [cleanups EXCEPT ![j] = @ + 1]
     /\ files' = IF removed THEN files \ {OutPath(j)} ELSE files
     /\ rmFailed' = IF removed THEN rmFailed ELSE rmFailed \cup {j}
     /\ status' = [status EXCEPT ![j] = AfterRemove(removed)]
     /\ unfinished' = TaskDone(unfinished)
     /\ cur' = [cur EXCEPT ![w] = None]
     /\ pc' = [pc EXCEPT ![w] = "get"]

\* ------------------------------------------------------------------ actions
StartWorkers ==
  /\ ~started
  /\ maxFfmpeg >= 0    \* asyncio.Semaphore(value) raises ValueError if value < 0
  /\ started' = TRUE
  /\ nworkers' = RangeLen(maxWorkers)
  /\ pc' = [w \in Workers |-> IF w <= RangeLen(maxWorkers) THEN "get" ELSE "unborn"]
  /\ UNCHANGED <<queue, unfinished, jobs, cur, now, sem, procs, lastStatus,
                 clock, files, clientClosed, stopPc, stopCalls, batches,
                 status, dequeues, cleanups, rmFailed, delivered, errCalls, errHandled,
                 errSent, progressLog, preStop>>
  /\ UNCHANGED <<cfgvars, dlvars, convars>>

EnqueueLinks(chat, links) ==
  /\ started
  /\ chat \in NextChats
  /\ batches < MaxBatches
  /\ Len(jobs) + Len(links) <= MaxJobs
  /\ LET n == Len(links)
         first == Len(jobs)
         zeros == [i \in 1..n |-> 0]
     IN /\ jobs' = jobs \o [i \in 1..n |->
                     [url |-> links[i], chat_id |-> chat, index |-> i, total |-> n]]
        /\ queue' = PutAll(queue, [i \in 1..n |-> first + i])
        /\ unfinished' = unfinished + n
        /\ status' = status \o [i \in 1..n |-> "Queued"]
        /\ dequeues' = dequeues \o zeros
        /\ cleanups' = cleanups \o zeros
        /\ delivered' = delivered \o zeros
        /\ errCalls' = errCalls \o zeros
        /\ errSent' = errSent \o zeros
        /\ preStop' = IF stopCalls = 0
                      THEN preStop \cup ((first + 1)..(first + n))
                      ELSE preStop
  /\ batches' = batches + 1
  /\ UNCHANGED <<started, nworkers, pc, cur, now, sem, procs, lastStatus, clock,
                 files, clientClosed, stopPc, stopCalls, rmFailed, errHandled,
                 progressLog>>
  /\ UNCHANGED <<cfgvars, dlvars, convars>>

Get(w, dt) ==
  /\ pc[w] = "get"
  /\ queue # <<>>
  /\ queue' = QueueRest(queue)
  /\ LET item == Head(queue) IN
       IF StopsOn(item)
       THEN /\ unfinished' = TaskDone(unfinished)
            /\ pc' = [pc EXCEPT ![w] = "exited"]
            /\ UNCHANGED <<cur, now, sem, status, dequeues, clock>>
       ELSE /\ cur' = [cur EXCEPT ![w] = item]
            /\ status' = [status EXCEPT ![item] = "InProgress"]
            /\ dequeues' = [dequeues EXCEPT ![item] = @ + 1]
            /\ clock' = clock + dt
            /\ IF ShouldReport(clock', lastStatus)
               THEN /\ now' = [now EXCEPT ![w] = clock']
                    /\ pc' = [pc EXCEPT ![w] = "status"]
                    /\ sem' = sem
               ELSE /\ now' = now
                    /\ Dispatch(w, item)
            /\ UNCHANGED unfinished
  /\ UNCHANGED <<started, nworkers, jobs, procs, lastStatus, files,
                 clientClosed, stopPc, stopCalls, batches, cleanups, rmFailed,
                 delivered, errCalls, errHandled, errSent, progressLog, preStop>>
  /\ UNCHANGED <<cfgvars, dlvars, convars>>

StatusSent(w, ok) ==
  /\ pc[w] = "status"
  /\ progressLog' = IF ok
                    THEN progressLog \cup {[job |-> cur[w], t |-> now[w]]}
                    ELSE progressLog
  /\ lastStatus' = now[w]
  /\ now' = [now EXCEPT ![w] = 0]
  /\ Dispatch(w, cur[w])
  /\ UNCHANGED <<started, nworkers, queue, unfinished, jobs, cur, procs,
                 clock, files, clientClosed, stopPc, stopCalls, batches,
                 status, dequeues, cleanups, rmFailed, delivered, errCalls, errHandled,
                 errSent, preStop>>
  /\ UNCHANGED <<cfgvars, dlvars, convars>>

AcquireSlot(w) ==
  /\ pc[w] = "acquire"
  /\ ~SemLocked(sem)
  /\ sem' = SemAcquire(sem)
  /\ pc' = [pc EXCEPT ![w] = "spawn"]
  /\ UNCHANGED <<started, nworkers, queue, unfinished, jobs, cur, now, procs,
                 lastStatus, clock, files, clientClosed, stopPc,
                 stopCalls, batches, status, dequeues, cleanups, rmFailed,
                 delivered, errCalls, errHandled, errSent, progressLog, preStop>>
  /\ UNCHANGED <<cfgvars, dlvars, convars>>

Spawned(w, ok) ==
  /\ pc[w] = "spawn"
  /\ IF ok
     THEN /\ procs' = procs \cup {w}
          /\ pc' = [pc EXCEPT ![w] = "wait"]
          /\ UNCHANGED <<sem, status, errCalls, errHandled>>
     ELSE /\ sem' = SemRelease(sem)
          /\ Raise(w)
          /\ UNCHANGED procs
  /\ UNCHANGED <<started, nworkers, queue, unfinished, jobs, cur, now,
                 lastStatus, clock, files, clientClosed, stopPc,
                 stopCalls, batches, dequeues, cleanups, rmFailed, delivered,
                 errSent, progressLog, preStop>>
  /\ UNCHANGED <<cfgvars, dlvars, convars>>

ProcExit(w, rc, wrote) ==
  /\ pc[w] = "wait"
  /\ rc = 0 => wrote
  /\ rc = Killed => HasDeadline(ConvertTimeout)
  /\ procs' = procs \ {w}
  /\ files' = IF wrote THEN files \cup {OutPath(cur[w])} ELSE files
  /\ IF rc = 0
     THEN /\ sem' = SemRelease(sem)
          /\ pc' = [pc EXCEPT ![w] = "upload"]
          /\ UNCHANGED <<status, errCalls, errHandled>>
     ELSE IF rc = Killed
          THEN \* wait_for timed out: kill, reap, RuntimeError("ffmpeg timeout")
               /\ sem' = SemRelease(sem)
               /\ Raise(w)
          ELSE /\ sem' = sem
               /\ pc' = [pc EXCEPT ![w] = "readerr"]
               /\ UNCHANGED <<status, errCalls, errHandled>>
  /\ UNCHANGED <<started, nworkers, queue, unfinished, jobs, cur, now,
                 lastStatus, clock, clientClosed, stopPc, stopCalls,
                 batches, dequeues, cleanups, rmFailed, delivered,
                 errSent, progressLog, preStop>>
  /\ UNCHANGED <<cfgvars, dlvars, convars>>

ReadStderr(w) ==
  /\ pc[w] = "readerr"
  /\ sem' = SemRelease(sem)
  /\ Raise(w)
  /\ UNCHANGED <<started, nworkers, queue, unfinished, jobs, cur, now, procs,
                 lastStatus, clock, files, clientClosed, stopPc,
                 stopCalls, batches, dequeues, cleanups, rmFailed, delivered,
                 errSent, progressLog, preStop>>
  /\ UNCHANGED <<cfgvars, dlvars, convars>>

FetchResponse(w, r) ==
  /\ pc[w] = "fetch"
  /\ clientClosed => r = "error"
  /\ files' = IF OpensFile(r) THEN files \cup {OutPath(cur[w])} ELSE files
  /\ IF r = "ok"
     THEN /\ pc' = [pc EXCEPT ![w] = "write"]
          /\ UNCHANGED <<status, errCalls, errHandled>>
     ELSE Raise(w)
  /\ UNCHANGED <<started, nworkers, queue, unfinished, jobs, cur, now, sem,
                 procs, lastStatus, clock, clientClosed, stopPc,
                 stopCalls, batches, dequeues, cleanups, rmFailed, delivered,
                 errSent, progressLog, preStop>>
  /\ UNCHANGED <<cfgvars, dlvars, convars>>

WriteBody(w, ok) ==
  /\ pc[w] = "write"
  /\ IF ok
     THEN /\ pc' = [pc EXCEPT ![w] = "upload"]
          /\ UNCHANGED <<status, errCalls, errHandled>>
     ELSE Raise(w)
  /\ UNCHANGED <<started, nworkers, queue, unfinished, jobs, cur, now, sem,
                 procs, lastStatus, clock, files, clientClosed, stopPc,
                 stopCalls, batches, dequeues, cleanups, rmFailed, delivered,
                 errSent, progressLog, preStop>>
  /\ UNCHANGED <<cfgvars, dlvars, convars>>

UploadPrimary(w, ok, rmOk) ==
  /\ pc[w] = "upload"
  /\ ok => OutPath(cur[w]) \in files
  /\ IF ok
     THEN /\ delivered' = [delivered EXCEPT ![cur[w]] = @ + 1]
          /\ Complete(w, rmOk)
     ELSE IF OutPath(cur[w]) \in files
          THEN /\ pc' = [pc EXCEPT ![w] = "fallback"]
               /\ UNCHANGED <<delivered, cleanups, files, rmFailed, status,
                              unfinished, cur>>
          ELSE /\ Complete(w, rmOk)
               /\ UNCHANGED delivered
  /\ UNCHANGED <<started, nworkers, queue, jobs, now, sem, procs, lastStatus,
                 clock, clientClosed, stopPc, stopCalls, batches,
                 dequeues, errCalls, errHandled, errSent, progressLog, preStop>>
  /\ UNCHANGED <<cfgvars, dlvars, convars>>

UploadFallback(w, ok, rmOk) ==
  /\ pc[w] = "fallback"
  /\ ok => OutPath(cur[w]) \in files
  /\ delivered' = IF ok THEN [delivered EXCEPT ![cur[w]] = @ + 1] ELSE delivered
  /\ Complete(w, rmOk)
  /\ UNCHANGED <<started, nworkers, queue, jobs, now, sem, procs, lastStatus,
                 clock, clientClosed, stopPc, stopCalls, batches,
                 dequeues, errCalls, errHandled, errSent, progressLog, preStop>>
  /\ UNCHANGED <<cfgvars, dlvars, convars>>

NotifyError(w, ok) ==
  /\ pc[w] = "notify"
  /\ errSent' = IF ok THEN [errSent EXCEPT ![cur[w]] = @ + 1] ELSE errSent
  /\ unfinished' = TaskDone(unfinished)
  /\ cur' = [cur EXCEPT ![w] = None]
  /\ pc' = [pc EXCEPT ![w] = AfterError]
  /\ UNCHANGED <<started, nworkers, queue, jobs, now, sem, procs, lastStatus,
                 clock, files, clientClosed, stopPc, stopCalls, batches,
                 status, dequeues, cleanups, rmFailed, delivered, errCalls, errHandled,
                 progressLog, preStop>>
  /\ UNCHANGED <<cfgvars, dlvars, convars>>

StopWorkers ==
  /\ started
  /\ stopPc \in {"idle", "returned"}
  /\ stopCalls < MaxStops
  /\ queue' = PutAll(queue, Sentinels(nworkers))
  /\ unfinished' = unfinished + nworkers
  /\ stopPc' = "gather"
  /\ stopCalls' = stopCalls + 1
  /\ UNCHANGED <<started, nworkers, jobs, pc, cur, now, sem, procs, lastStatus,
                 clock, files, clientClosed, batches, status, dequeues,
                 cleanups, rmFailed, delivered, errCalls, errHandled, errSent, progressLog,
                 preStop>>
  /\ UNCHANGED <<cfgvars, dlvars, convars>>

\* `await asyncio.gather(*self.workers)` returns once every worker task has
\* ended.  (GatheredAtOnce is a faulty variant: the tasks are not awaited.)
GatheredAtOnce(n) == TRUE
Gathered(n) == \A w \in 1..n : pc[w] = "exited"

StopGathered ==
  /\ stopPc = "gather"
  /\ Gathered(nworkers)
  /\ clientClosed' = TRUE
  /\ stopPc' = "returned"
  /\ UNCHANGED <<started, nworkers, queue, unfinished, jobs, pc, cur, now, sem,
                 procs, lastStatus, clock, files, stopCalls, batches,
                 status, dequeues, cleanups, rmFailed, delivered, errCalls, errHandled,
                 errSent, progressLog, preStop>>
  /\ UNCHANGED <<cfgvars, dlvars, convars>>

WorkerStep(w) ==
  \/ \E dt \in Elapsed : Get(w, dt)
  \/ \E ok \in BOOLEAN : StatusSent(w, ok)
  \/ AcquireSlot(w)
  \/ \E ok \in BOOLEAN : Spawned(w, ok)
  \/ \E rc \in {0, 1, Killed}, wrote \in BOOLEAN : ProcExit(w, rc, wrote)
  \/ ReadStderr(w)
  \/ \E r \in {"ok", "status", "error"} : FetchResponse(w, r)
  \/ \E ok \in BOOLEAN : WriteBody(w, ok)
  \/ \E ok \in BOOLEAN, rmOk \in BOOLEAN : UploadPrimary(w, ok, rmOk)
  \/ \E ok \in BOOLEAN, rmOk \in BOOLEAN : UploadFallback(w, ok, rmOk)
  \/ \E ok \in BOOLEAN : NotifyError(w, ok)

Next ==
  \/ StartWorkers
  \/ \E chat \in Chats, links \in Batches : EnqueueLinks(chat, links)
  \/ \E w \in Workers : WorkerStep(w)
  \/ StopWorkers
  \/ StopGathered

Spec == Init /\ [][Next]_allvars

\* the link processor under any configuration main.py accepts or fails on
CfgInit ==
  /\ \E c \in Configs : maxWorkers = c.workers /\ maxFfmpeg = c.ffmpeg
  /\ LinkProcessorInit
  /\ DownloaderInit
  /\ ConvertIdle
  /\ disk = [l \in DlLinks |-> "none"]

CfgSpec == CfgInit /\ [][Next]_allvars

\* fairness: the event loop resumes a task once what it awaits has completed, and
\* what a worker awaits (the queue, the semaphore, an HTTP transfer, the ffmpeg
\* process, a Telegram call) completes; gather() returns once every worker has
\* returned
FairSpec ==
  /\ Init
  /\ [][Next]_allvars
  /\ \A w \in Workers : WF_vars(WorkerStep(w))
  /\ WF_vars(StopGathered)

\* fairness as in FairSpec, except that an ffmpeg process is not taken to exit by
\* itself: while a worker awaits it, only the deadline of convert_m3u8_async is
\* sure to end the wait
NoExitSpec ==
  /\ Init
  /\ [][Next]_allvars
  /\ \A w \in Workers : WF_vars(WorkerStep(w) /\ pc[w] # "wait")
  /\ \A w \in Workers : WF_vars(\E wrote \in BOOLEAN : ProcExit(w, Killed, wrote))
  /\ WF_vars(StopGathered)

\* ------------------------------------- AdvancedRASDownloader: the download
\* download_file_with_progress is entered: link['status'] = 'downloading'
DownloadBegin(c, l, cb) ==
  /\ dpc[c] = "idle"
  /\ dlink' = [dlink EXCEPT ![c] = l]
  /\ dcb' = [dcb EXCEPT ![c] = cb]
  /\ linkStatus' = [linkStatus EXCEPT ![l] = "downloading"]
  /\ dpc' = [dpc EXCEPT ![c] = "exists"]
  /\ UNCHANGED <<disk, dresult, gets>>
  /\ UNCHANGED <<vars, cfgvars, convars>>

\* `if os.path.exists(filepath)`: the link is marked completed without a
\* request, and what is left is the progress callback and the return
ExistsCheck(c) ==
  /\ dpc[c] = "exists"
  /\ IF disk[dlink[c]] # "none"
     THEN /\ linkStatus' = [linkStatus EXCEPT ![dlink[c]] = "completed"]
          /\ dpc' = [dpc EXCEPT ![c] = "callback"]
     ELSE /\ dpc' = [dpc EXCEPT ![c] = "get"]
          /\ UNCHANGED linkStatus
  /\ UNCHANGED <<disk, dlink, dcb, dresult, gets>>
  /\ UNCHANGED <<vars, cfgvars, convars>>

\* requests.get and raise_for_status: a success status, an error status, or no
\* response at all
RequestsGet(c, r) ==
  /\ dpc[c] = "get"
  /\ gets' = [gets EXCEPT ![dlink[c]] = @ + 1]
  /\ dpc' = [dpc EXCEPT ![c] = IF r = "ok" THEN "open" ELSE "except"]
  /\ UNCHANGED <<linkStatus, disk, dlink, dcb, dresult>>
  /\ UNCHANGED <<vars, cfgvars, convars>>

\* open(filepath, 'wb'): creates the file, or empties the one that is there
OpenFile(c, ok) ==
  /\ dpc[c] = "open"
  /\ IF ok
     THEN /\ disk' = [disk EXCEPT ![dlink[c]] = "empty"]
          /\ dpc' = [dpc EXCEPT ![c] = "chunks"]
     ELSE /\ dpc' = [dpc EXCEPT ![c] = "except"]
          /\ UNCHANGED disk
  /\ UNCHANGED <<linkStatus, dlink, dcb, dresult, gets>>
  /\ UNCHANGED <<vars, cfgvars, convars>>

\* one round of `for chunk in response.iter_content(...)`: a chunk is written
\* and the callback is not due; a chunk is written and the callback is due
\* (downloaded_size % 81920 == 0); the body has ended, the file is closed and
\* the link is marked completed; or the stream or the write raises
IterContent(c, ev) ==
  /\ dpc[c] = "chunks"
  /\ CASE ev = "chunk" ->
            /\ disk' = [disk EXCEPT ![dlink[c]] = "part"]
            /\ UNCHANGED <<dpc, linkStatus>>
       [] ev = "chunk_callback" ->
            /\ disk' = [disk EXCEPT ![dlink[c]] = "part"]
            /\ dpc' = [dpc EXCEPT ![c] = IF dcb[c] = "raises" THEN "except" ELSE @]
            /\ UNCHANGED linkStatus
       [] ev = "end" ->
            /\ disk' = [disk EXCEPT ![dlink[c]] = "whole"]
            /\ linkStatus' = [linkStatus EXCEPT ![dlink[c]] = "completed"]
            /\ dpc' = [dpc EXCEPT ![c] = "callback"]
       [] ev = "error" ->
            /\ dpc' = [dpc EXCEPT ![c] = "except"]
            /\ UNCHANGED <<disk, linkStatus>>
  /\ UNCHANGED <<dlink, dcb, dresult, gets>>
  /\ UNCHANGED <<vars, cfgvars, convars>>

\* the link is marked completed: `if progress_callback: progress_callback(link)`
\* and the return of the success result
CallbackAndReturn(c) ==
  /\ dpc[c] = "callback"
  /\ IF dcb[c] = "raises"
     THEN /\ dpc' = [dpc EXCEPT ![c] = "except"]
          /\ UNCHANGED dresult
     ELSE /\ dpc' = [dpc EXCEPT ![c] = "returned"]
          /\ dresult' = [dresult EXCEPT ![c] = "success"]
  /\ UNCHANGED <<linkStatus, disk, dlink, dcb, gets>>
  /\ UNCHANGED <<vars, cfgvars, convars>>

\* `except Exception`: the link is marked failed and the callback is called once
\* more; if it raises, the exception leaves download_file_with_progress
ExceptClause(c) ==
  /\ dpc[c] = "except"
  /\ linkStatus' = [linkStatus EXCEPT ![dlink[c]] = "failed"]
  /\ dresult' = [dresult EXCEPT ![c] = IF dcb[c] = "raises" THEN "raised" ELSE "failure"]
  /\ dpc' = [dpc EXCEPT ![c] = "returned"]
  /\ UNCHANGED <<disk, dlink, dcb, gets>>
  /\ UNCHANGED <<vars, cfgvars, convars>>

DlNext ==
  \/ \E c \in Calls, l \in DlLinks, cb \in Callbacks : DownloadBegin(c, l, cb)
  \/ \E c \in Calls : ExistsCheck(c)
  \/ \E c \in Calls, r \in {"ok", "status", "error"} : RequestsGet(c, r)
  \/ \E c \in Calls, ok \in BOOLEAN : OpenFile(c, ok)
  \/ \E c \in Calls, ev \in {"chunk", "chunk_callback", "end", "error"} : IterContent(c, ev)
  \/ \E c \in Calls : CallbackAndReturn(c)
  \/ \E c \in Calls : ExceptClause(c)

\* the download directory may hold files of earlier runs
DlInit ==
  /\ maxWorkers = MAX_WORKERS
  /\ maxFfmpeg = MAX_CONCURRENT_FFMPEG
  /\ LinkProcessorInit
  /\ DownloaderInit
  /\ ConvertIdle
  /\ disk \in [DlLinks -> {"none", "old"}]

DlSpec == DlInit /\ [][DlNext]_allvars

\* ------------------------------------------- convert_m3u8_async on its own
Min(a, b) == IF a < b THEN a ELSE b

\* the amounts of diagnostics an ffmpeg process may have to write
StderrSizes == {0, 1, ErrPrefix, ErrPrefix + 1, PipeCapacity, PipeCapacity + 1}
\* the sizes of one write of the process
WriteSizes == {ErrPrefix, PipeBuf}

\* asyncio.create_subprocess_exec returns the process, or raises (no ffmpeg)
CvSpawned(ok) ==
  /\ cvPc = "spawn"
  /\ IF ok
     THEN cvPc' = "wait" /\ UNCHANGED cvResult
     ELSE cvPc' = "done" /\ cvResult' = "spawn error"
  /\ UNCHANGED <<cvTimeout, cvRc, cvToWrite, cvPipe, cvErrLen>>
  /\ UNCHANGED <<vars, cfgvars, dlvars>>

\* the process writes up to n bytes of diagnostics: what it has, as far as the
\* pipe takes it, and it blocks when the pipe is full.  Nothing reads the pipe
\* while the call awaits proc.wait()
FfmpegWrites(n) ==
  /\ cvPc = "wait"
  /\ cvToWrite > 0
  /\ cvPipe < PipeCapacity
  /\ cvToWrite' = cvToWrite - Min(n, Min(cvToWrite, PipeCapacity - cvPipe))
  /\ cvPipe' = cvPipe + Min(n, Min(cvToWrite, PipeCapacity - cvPipe))
  /\ UNCHANGED <<cvPc, cvTimeout, cvRc, cvResult, cvErrLen>>
  /\ UNCHANGED <<vars, cfgvars, dlvars>>

\* the process has written all it had to and exits; proc.wait() returns
FfmpegExits ==
  /\ cvPc = "wait"
  /\ cvToWrite = 0
  /\ IF cvRc = 0
     THEN cvPc' = "done" /\ cvResult' = "path"
     ELSE cvPc' = "readerr" /\ UNCHANGED cvResult
  /\ UNCHANGED <<cvTimeout, cvRc, cvToWrite, cvPipe, cvErrLen>>
  /\ UNCHANGED <<vars, cfgvars, dlvars>>

\* wait_for gives up after `timeout`: proc.kill()
CvTimedOut ==
  /\ cvPc = "wait"
  /\ HasDeadline(cvTimeout)
  /\ cvPc' = "killed"
  /\ UNCHANGED <<cvTimeout, cvRc, cvToWrite, cvPipe, cvResult, cvErrLen>>
  /\ UNCHANGED <<vars, cfgvars, dlvars>>

\* the killed process is reaped: RuntimeError("ffmpeg timeout")
CvReaped ==
  /\ cvPc = "killed"
  /\ cvPc' = "done"
  /\ cvResult' = "timeout error"
  /\ UNCHANGED <<cvTimeout, cvRc, cvToWrite, cvPipe, cvErrLen>>
  /\ UNCHANGED <<vars, cfgvars, dlvars>>

\* returncode != 0: proc.stderr.read() returns what is in the pipe, and the
\* RuntimeError carries stderr[:400]
CvReadStderr ==
  /\ cvPc = "readerr"
  /\ cvErrLen' = Min(cvPipe, ErrPrefix)
  /\ cvPipe' = 0
  /\ cvPc' = "done"
  /\ cvResult' = "conversion error"
  /\ UNCHANGED <<cvTimeout, cvRc, cvToWrite>>
  /\ UNCHANGED <<vars, cfgvars, dlvars>>

ConvNext ==
  \/ \E ok \in BOOLEAN : CvSpawned(ok)
  \/ \E n \in WriteSizes : FfmpegWrites(n)
  \/ FfmpegExits
  \/ CvTimedOut
  \/ CvReaped
  \/ CvReadStderr

\* a call with or without a timeout, of an ffmpeg that will exit with 0 or 1
\* after some amount of diagnostics
ConvInit ==
  /\ maxWorkers = MAX_WORKERS
  /\ maxFfmpeg = MAX_CONCURRENT_FFMPEG
  /\ LinkProcessorInit
  /\ DownloaderInit
  /\ disk = [l \in DlLinks |-> "none"]
  /\ cvPc = "spawn"
  /\ cvTimeout \in {ConvertTimeout, 30}
  /\ cvRc \in {0, 1}
  /\ cvToWrite \in StderrSizes
  /\ cvPipe = 0
  /\ cvResult = "none"
  /\ cvErrLen = 0

\* fairness: the event loop resumes the call once what it awaits has completed,
\* and the ffmpeg process runs: it writes while the pipe takes its output and
\* exits when it has written it
ConvSpec ==
  /\ ConvInit
  /\ [][ConvNext]_allvars
  /\ WF_convars(ConvNext)

\* ------------------------------------------------------------------- claims
InProgress(j) == \E w \in Workers : cur[w] = j
Finished(j) == status[j] \in {"Done", "Failed"} /\ ~InProgress(j)

\* C1: the ffmpeg processes spawned by workers and not yet exited never number
\* more than MAX_CONCURRENT_FFMPEG: each of them belongs to a worker that holds
\* a slot of ffmpeg_sem, from before it is spawned until after it has exited,
\* and the workers holding a slot never number more than the capacity
FfmpegBounded ==
  /\ procs \subseteq {w \in Workers : HoldsSlot(w)}
  /\ Cardinality({w \in Workers : HoldsSlot(w)}) <= MAX_CONCURRENT_FFMPEG
  /\ Cardinality(procs) <= MAX_CONCURRENT_FFMPEG

\* C1 witness: the limiter is saturated by running processes while another
\* worker with a stream job is held back
FfmpegSaturated ==
  /\ Cardinality(procs) = MAX_CONCURRENT_FFMPEG
  /\ \E w \in Workers : pc[w] = "acquire"

WorkerSurvivesErrors ==
  [][\A w \in Workers :
       /\ cur[w] # None => pc'[w] # "exited"
       /\ (pc[w] = "notify" /\ pc'[w] # "notify") => pc'[w] = "get"
       /\ (pc[w] = "notify") # (pc'[w] = "notify") =>
            \A v \in Workers \ {w} :
              /\ pc'[v] = pc[v]
              /\ cur'[v] = cur[v]
              /\ cur[v] # None => status'[cur[v]] = status[cur[v]]
    ]_vars

\* C3 witness: a worker that handled a job's exception, and could not even send
\* the error message, is processing another job
WorkerWentOn ==
  \E w \in errHandled :
    /\ cur[w] # None
    /\ status[cur[w]] = "InProgress"
    /\ \E j \in JobIds : status[j] = "Failed" /\ errSent[j] = 0 /\ Finished(j)

\* C4: no job is returned by queue.get() twice, a job that was returned is no
\* longer on the queue, and no job is held by two workers
OneWorkerPerJob ==
  \A j \in JobIds :
    /\ dequeues[j] <= 1
    /\ dequeues[j] = 1 => \A i \in 1..Len(queue) : queue[i] # j
    /\ Cardinality({w \in Workers : cur[w] = j}) <= 1

\* C4 witness: two workers hold two different jobs at the same time
TwoJobsInProgress ==
  \E w1, w2 \in Workers :
    /\ w1 # w2
    /\ cur[w1] # None
    /\ cur[w2] # None
    /\ cur[w1] # cur[w2]

\* C5: every job that is Done or Failed has had exactly one cleanup attempt
CleanupOnEveryTerminal ==
  \A j \in JobIds : Finished(j) => cleanups[j] = 1

\* C6: the slots held are exactly those of the workers inside the `async with`
\* block: the held count is never negative, never above the capacity, and 0
\* whenever no conversion is running
SlotsMatched ==
  /\ sem >= 0
  /\ Held >= 0
  /\ Held = Cardinality({w \in Workers : HoldsSlot(w)})

\* C6 witness: a conversion ended with an exception and no slot is held
SlotFreedAfterFailure ==
  /\ Held = 0
  /\ \E j \in JobIds : IsStream(jobs[j].url) /\ status[j] = "Failed"

\* C7: once a job is Done or Failed and no removal of its artifact failed, no
\* file of the job is left in the working directory
NoFileLeftBehind ==
  \A j \in JobIds :
    (/\ Finished(j)
     /\ j \notin rmFailed
     /\ \A k \in JobIds \ {j} : OutPath(k) # OutPath(j))
    => OutPath(j) \notin files

\* C8: a job whose primary and fallback upload both failed does not end Done
DeliveryErrorSurfaces ==
  \A j \in JobIds : status[j] = "Done" => delivered[j] >= 1

\* C9: any two progress messages sent are more than BATCH_MESSAGE_INTERVAL of
\* loop time apart
ProgressThrottled ==
  \A m1, m2 \in progressLog :
    m1 # m2 =>
      \/ m1.t - m2.t > BATCH_MESSAGE_INTERVAL
      \/ m2.t - m1.t > BATCH_MESSAGE_INTERVAL

\* C10: every job that is Done or Failed has had a message of its outcome sent
\* to its chat: the error message of a Failed job, or at least the document of a
\* Done job
OutcomeNotified ==
  \A j \in JobIds :
    Finished(j) =>
      \/ status[j] = "Failed" /\ errCalls[j] >= 1
      \/ status[j] = "Done" /\ delivered[j] >= 1

\* the jobs enqueued by the same call of enqueue_links as job j: its index
\* counts from 1 within the call
BatchOf(j) == {k \in JobIds : k - jobs[k].index = j - jobs[j].index}

\* a step of the job's processing failed for good: its fetch or conversion
\* raised, or both attempts of its upload did
ProcessingFailed(j) ==
  \/ status[j] = "Failed"
  \/ status[j] = "Done" /\ delivered[j] = 0

\* C11: when every job of a batch has ended and the processing of exactly one
\* of them failed, exactly one error notification was issued for the batch, it
\* is the one of the failed job, and every other job of the batch is Done with
\* its document delivered
OneFailureOneNotice ==
  \A j \in JobIds :
    (/\ \A k \in BatchOf(j) : Finished(k)
     /\ ProcessingFailed(j)
     /\ \A k \in BatchOf(j) \ {j} : ~ProcessingFailed(k))
    => /\ errCalls[j] = 1
       /\ \A k \in BatchOf(j) \ {j} :
            errCalls[k] = 0 /\ status[k] = "Done" /\ delivered[k] >= 1

\* C12: a conversion does not run for ever: an ffmpeg process that does not exit
\* by itself is killed when the conversion timeout expires, which ends the wait
\* of its worker (the job then fails and the slot is released)
ConversionDeadline ==
  \A w \in Workers : (pc[w] = "wait") ~> (pc[w] # "wait")

\* C13: link['status'] only moves pending -> downloading -> completed or
\* failed: no step takes it backwards, and no step changes it once it is
\* completed or failed
StatusOneWay ==
  [][\A l \in DlLinks :
       linkStatus'[l] # linkStatus[l] =>
         <<linkStatus[l], linkStatus'[l]>> \in
           {<<"pending", "downloading">>, <<"downloading", "completed">>,
            <<"downloading", "failed">>}
    ]_dlvars

\* C14: jobs are returned by queue.get() in the order they were put (the order
\* of the job ids): when a job has been dequeued, every job put before it has
\* been dequeued too, and the jobs still on the queue are in the order they were
\* put
DequeuedInPutOrder ==
  /\ \A a, b \in JobIds : (a < b /\ dequeues[b] >= 1) => dequeues[a] >= 1
  /\ \A i, k \in 1..Len(queue) :
       (i < k /\ queue[i] # None /\ queue[k] # None) => queue[i] < queue[k]

\* C14 witness: two jobs were dequeued in the order they were put, and the later
\* one has ended while the earlier one is still in progress
LaterJobEndsFirst ==
  \E a, b \in JobIds : a < b /\ Finished(b) /\ InProgress(a)

\* C15: when stop_workers has returned, every item put on the queue, job or
\* sentinel, has been dequeued and acknowledged: the queue is empty and its
\* count of unfinished items is 0
StopLeavesNothing ==
  stopPc = "returned" => (queue = <<>> /\ unfinished = 0)

SlotWaitThenSpawn ==
  /\ [][\A w \in Workers :
          (pc[w] # "spawn" /\ pc'[w] = "spawn") => (sem > 0 /\ sem' = sem - 1)
       ]_vars
  /\ [](\A w \in Workers : pc[w] = "acquire" => w \notin procs)
  /\ \A w \in Workers : (pc[w] = "acquire" /\ sem > 0) ~> (pc[w] = "spawn")

\* C18 witness: a worker that found every slot held is still waiting at the
\* semaphore, and the conversion that held the slot has released it
SlotFreedForWaiter ==
  \E w \in Workers : pc[w] = "acquire" /\ sem > 0 /\ procs = {}

\* C19: a fetch that fails at its response (an error status, or no response)
\* creates no file: the step that raises leaves the working directory as it was
\* and makes the job Failed, and while the response is awaited the only file
\* that can be at the job's path is one of another job with the same path
NoFileOnHttpError ==
  /\ [][\A w \in Workers :
          (pc[w] = "fetch" /\ pc'[w] = "notify") =>
            (files' = files /\ status'[cur[w]] = "Failed")
       ]_vars
  /\ [](\A w \in Workers :
          (pc[w] = "fetch" /\ OutPath(cur[w]) \in files) =>
            \E k \in JobIds \ {cur[w]} : OutPath(k) = OutPath(cur[w]))

\* C19 witness: a plain job has ended Failed, and no file is at its path, which
\* no other job shares: its fetch failed before the file was opened
FailedWithoutFile ==
  \E j \in JobIds :
    /\ ~IsStream(jobs[j].url)
    /\ Finished(j) /\ status[j] = "Failed"
    /\ OutPath(j) \notin files
    /\ \A k \in JobIds \ {j} : OutPath(k) # OutPath(j)

\* C20: no request is made for a destination path that already exists: while a
\* worker awaits the response of a fetch, no file is at the job's path, unless
\* another job in progress has the same path and is writing it
NoFetchOntoExistingFile ==
  \A w \in Workers :
    (/\ pc[w] = "fetch"
     /\ \A v \in Workers \ {w} : cur[v] # None => OutPath(cur[v]) # OutPath(cur[w]))
    => OutPath(cur[w]) \notin files

\* C21: no two jobs that are in progress at the same time have the same
\* artifact path (index within the batch, basename, extension)
NoSharedPathInProgress ==
  \A w1, w2 \in Workers :
    (w1 # w2 /\ cur[w1] # None /\ cur[w2] # None) =>
      OutPath(cur[w1]) # OutPath(cur[w2])

\* C22: a job is accepted onto the queue only under a positive configuration:
\* a non-positive MAX_WORKERS or MAX_CONCURRENT_FFMPEG stops the program before
\* start_workers, so a job that is waiting always has workers and slots to wait
\* for
NoJobUnderBadConfig ==
  \A j \in JobIds :
    status[j] = "Queued" => (maxWorkers > 0 /\ maxFfmpeg > 0 /\ nworkers > 0)

\* C23: a conversion whose ffmpeg is to exit with a nonzero code ends with an
\* error, whatever the amount of diagnostics the process writes first, and the
\* error of a failed conversion carries at most the first 400 bytes of stderr
ConversionErrorBounded ==
  /\ [](cvResult = "conversion error" => cvErrLen <= ErrPrefix)
  /\ (cvPc = "wait" /\ cvRc # 0)
       ~> (cvResult \in {"conversion error", "timeout error"})

\* C24: the throttle of the progress updates is per chat: a job whose chat
\* has had no update at all (no job of the chat was taken up before) gets its
\* update, whatever was sent to other chats within the interval
FirstOfChat(j) ==
  \A k \in JobIds :
    (k # j /\ jobs[k].chat_id = jobs[j].chat_id) => dequeues[k] = 0

ThrottlePerChat ==
  [][\A w \in Workers :
       (/\ pc[w] = "get"
        /\ pc'[w] \notin {"get", "exited"}
        /\ FirstOfChat(cur'[w])
        /\ clock' > BATCH_MESSAGE_INTERVAL)
         => pc'[w] = "status"]_vars

\* C25: a failure to remove the artifact does not change the outcome of the
\* job: the job is Done, no failure was notified for it, and its worker has
\* left it and gone on
RemoveFailureHarmless ==
  \A j \in rmFailed :
    /\ status[j] = "Done"
    /\ errCalls[j] = 0
    /\ errSent[j] = 0
    /\ \A w \in Workers : cur[w] # j

\* a delivered artifact could not be removed and is still there, the job is
\* over and a later job is in progress
RemoveFailed ==
  \E j \in rmFailed :
    /\ delivered[j] = 1
    /\ OutPath(j) \in files
    /\ \E w \in Workers : cur[w] # None /\ cur[w] > j

\* C26: every item taken from the queue, job or sentinel, is acknowledged
\* with task_done exactly once when its handling ends: the unfinished count
\* is the items put less the items acknowledged, that is the items still on
\* the queue and the items the workers hold, and it is never below zero
Holding == {w \in Workers : cur[w] # None}

AcknowledgedOnce ==
  /\ unfinished >= 0
  /\ unfinished = Len(queue) + Cardinality(Holding)

\* a sentinel, a job that ended Done and a job that ended Failed have been
\* acknowledged, and items are still unfinished
AllPathsAcknowledged ==
  /\ \E w \in Workers : pc[w] = "exited"
  /\ \E j \in JobIds : status[j] = "Done" /\ \A w \in Workers : cur[w] # j
  /\ \E j \in JobIds : status[j] = "Failed" /\ \A w \in Workers : cur[w] # j
  /\ unfinished > 0

\* C27: a slot of the limiter is held only while ffmpeg is being run: the
\* slots held are at most the stream jobs that are in their conversion, none
\* is held for a job that is uploading, removing or notifying, and a plain
\* job never takes or waits for a slot
Converting(w) ==
  /\ cur[w] # None
  /\ IsStream(jobs[cur[w]].url)
  /\ pc[w] \notin {"status", "acquire", "upload", "fallback", "notify"}

SlotOnlyForFfmpeg ==
  /\ Held <= Cardinality({w \in Workers : Converting(w)})
  /\ \A w \in Workers :
       (cur[w] # None /\ ~IsStream(jobs[cur[w]].url)) =>
         pc[w] \in {"status", "fetch", "write", "upload", "fallback", "notify"}

\* the limiter is saturated by a conversion, and another worker has fetched
\* a plain job meanwhile and is uploading it
PlainJobPastSaturatedLimiter ==
  /\ sem = 0
  /\ \E w \in Workers : pc[w] = "wait"
  /\ \E w \in Workers :
       /\ pc[w] = "upload"
       /\ ~IsStream(jobs[cur[w]].url)
       /\ \E v \in Workers : pc[v] = "wait" /\ cur[v] < cur[w]

\* C28: the HTTP client is closed only after every worker task has ended, so
\* no worker has a job, and none is in a fetch or about to start one, once the
\* client is closed, however enqueue_links and the calls of stop_workers
\* interleave
ClosedAfterWorkers ==
  clientClosed =>
    \A w \in Workers : pc[w] \in {"exited", "unborn"} /\ cur[w] = None

\* stop_workers has been called twice and has closed the client, a plain job
\* was fetched and delivered before, and a job enqueued since is on the queue
ClosedAfterSecondStop ==
  /\ clientClosed
  /\ stopCalls = 2
  /\ stopPc = "returned"
  /\ \E j \in JobIds : ~IsStream(jobs[j].url) /\ delivered[j] = 1
  /\ \E i \in 1..Len(queue) : queue[i] # None

\* C29: download_file_with_progress never lets an exception out: a call that
\* ends has returned a result, success False with the link marked failed, or
\* success True with the link marked completed (for a link that no other call
\* works on)
OnlyCallOn(c) ==
  \A d \in Calls : d # c => (dpc[d] = "idle" \/ dlink[d] # dlink[c])

DownloadAlwaysReturns ==
  [][\A c \in Calls :
       (dpc[c] # "returned" /\ dpc'[c] = "returned") =>
         /\ dresult'[c] \in {"success", "failure"}
         /\ dresult'[c] = "failure" => linkStatus'[dlink[c]] = "failed"
         /\ (dresult'[c] = "success" /\ OnlyCallOn(c)) =>
              linkStatus'[dlink[c]] = "completed"]_dlvars

====
